---- MODULE Spec2Model ----
(***************************************************************************)
(* Model of reviewer.py: the three-stage review pipeline of main()         *)
(* (detail analysis per file, short analysis per detail result, one        *)
(* project-level request), run by asyncio.run on a single event loop.      *)
(*                                                                         *)
(* Strings are TLA+ strings and are concatenated and searched exactly as   *)
(* the Python code does ('+' and 'in').  A dict is a sequence of [k, v]    *)
(* records in insertion order.  The completion service is the environment: *)
(* every request in flight resolves with some text or with an exception.   *)
(***************************************************************************)
EXTENDS Integers, Sequences, FiniteSets, TLC

\* ---------------------------------------------------------------- bounds
\* Largest number of files the directory listing returns.
MaxFiles == 3

\* Largest configured concurrency limit.  reviewer.py:29 sets 20; the model
\* runs every limit from 1 up to this bound, so that a few files already
\* need more than one batch.
MaxConcurrent == 3

\* ------------------------------------------------------------- constants
CANT_READ_FILE_MES == "Can not read file"
NO_CHANGES == "No changes required"
MD_TITLE == "## "
SEED == 66

\* Contents of prompts/detail.md, prompts/short.md, prompts/project.md as
\* read_file_content(..., is_prompt=True) returns them.
detail_analysis_prompt == "detail\n"
short_analysis_prompt == "short\n"
project_analysis_prompt == "project\n"

\* File names a listing can hold, in the order items.sort() puts them
\* (upper case sorts before lower case).
PathOrder == <<"No changes required.py", "a.py", "b.py", "c.py">>

\* What a file can hold.
Contents == {"print(1)", "# Can not read file"}

\* What the completion service can answer.
Responses == {"Fix it", "No changes required."}

\* Key of the single project-level request (it has no identifier).
PROJECT == "<project>"

\* The result of a task that has not finished.
NORESULT == "<no result>"

\* Stands for seed=None (the default of openai_request): the service is
\* free to answer the same prompt differently.
NONE == -1

VARIABLES
    NUMBER_OF_CONCURRENT_REQUESTS,   \* the configured limit (line 29)
    project_files,               \* list of [path, readable, content]
    phase,                       \* Idle, DetailPhase, ShortPhase, ProjectPhase, Done
    pc,                          \* position of main(): loop, await, raised, exit
    status,                      \* running, ok, error
    detail_analysis_prompt_dict,
    detail_analysis_result_dict,
    short_analysis_prompt_dict,
    files_analysis_results,
    project_system_messages,
    batches,                     \* the batches of the current stage
    batch_no,                    \* number of batches of the stage started
    pending,                     \* requests issued and not resolved
    done,                        \* result of every task of the batch
    failed,                      \* log of the requests that raised
    detail_md, short_md, project_md,   \* the three report files
    issued,                      \* log of the requests issued
    returned,                    \* log of what process_batch returned
    answered,                    \* log of the answers of the service
    completed,                   \* keys of the batch in the order they resolved
    run,                         \* 1 for the first run of the program, 2 for a rerun
    first_run                    \* what the first run produced, kept for a rerun

vars == <<NUMBER_OF_CONCURRENT_REQUESTS, project_files, phase, pc, status,
          detail_analysis_prompt_dict,
          detail_analysis_result_dict, short_analysis_prompt_dict,
          files_analysis_results, project_system_messages, batches,
          batch_no, pending, done, failed, detail_md, short_md, project_md,
          issued, returned, answered, completed, run, first_run>>

\* ---------------------------------------------------------- pure helpers
Min(a, b) == IF a < b THEN a ELSE b

\* Python's `t in s` on strings.
Contains(s, t) ==
    \E i \in 1..(Len(s) - Len(t) + 1) : SubSeq(s, i, i + Len(t) - 1) = t

marker == "------------------------------"

read_file_content(f, is_prompt) ==
    LET title == marker \o " " \o f.path \o " " \o marker \o "\n"
    IN  IF f.readable
        THEN (IF is_prompt THEN "" ELSE title) \o f.content \o "\n"
        ELSE title \o CANT_READ_FILE_MES \o "\n"

to_openai_system_message(prompt) == [role |-> "system", content |-> prompt]

to_openai_user_message(prompt) == [role |-> "user", content |-> prompt]

format_title(k, v) == MD_TITLE \o k \o "\n\n" \o v

Keys(d) == {d[i].k : i \in DOMAIN d}

KeySeq(d) == [i \in DOMAIN d |-> d[i].k]

\* d[k] = v on a dict: replace in place, or append a new key.
DictSet(d, k, v) ==
    IF k \in Keys(d)
    THEN [i \in DOMAIN d |-> IF d[i].k = k THEN [k |-> k, v |-> v] ELSE d[i]]
    ELSE Append(d, [k |-> k, v |-> v])

\* Variant: only the full batches are produced (len // batch_size).
dict_to_batches_floor(input_dict, batch_size) ==
    LET n == Len(input_dict)
    IN  [i \in 1..(n \div batch_size) |->
            SubSeq(input_dict, (i - 1) * batch_size + 1, i * batch_size)]

\* Variant: every slice takes batch_size + 1 entries from the iterator.
dict_to_batches_wide(input_dict, batch_size) ==
    LET n == Len(input_dict)
        starts == {s \in 0..(n - 1) : s % batch_size = 0}
    IN  [i \in 1..Cardinality(starts) |->
            SubSeq(input_dict, (i - 1) * (batch_size + 1) + 1,
                   Min(i * (batch_size + 1), n))]

\* Variant: every slice starts again at the first entry of the dict.
dict_to_batches_restart(input_dict, batch_size) ==
    LET n == Len(input_dict)
        starts == {s \in 0..(n - 1) : s % batch_size = 0}
    IN  [i \in 1..Cardinality(starts) |->
            SubSeq(input_dict, 1, Min(batch_size, n))]

dict_to_batches(input_dict, batch_size) ==
    LET n == Len(input_dict)
        starts == {s \in 0..(n - 1) : s % batch_size = 0}
    IN  [i \in 1..Cardinality(starts) |->
            SubSeq(input_dict, (i - 1) * batch_size + 1,
                   Min(i * batch_size, n))]

\* The Markdown code fence around the tree (three backquotes in the source).
FENCE == "~~~"

\* The text project_tree() draws for a flat directory; the two ASCII
\* prefixes stand for the box-drawing prefixes of the source.
RECURSIVE TreeText(_, _)
TreeText(files, i) ==
    IF i > Len(files) THEN ""
    ELSE (IF i = Len(files) THEN "L--- " ELSE "+--- ")
         \o files[i].path \o "\n" \o TreeText(files, i + 1)

\* ------------------------------------------------- main(): prompt building
\* Lines 274-275: the file is skipped when the marker occurs in what
\* read_file_content returned.
SkipFile(file_detail_analysis) ==
    Contains(file_detail_analysis, CANT_READ_FILE_MES)

\* Lines 270-281: the loop over project_files.
RECURSIVE BuildDetailPrompts(_, _, _)
BuildDetailPrompts(files, i, d) ==
    IF i > Len(files) THEN d
    ELSE LET file_detail_analysis == read_file_content(files[i], FALSE)
             relative_path == files[i].path
             messages == <<to_openai_system_message(detail_analysis_prompt),
                           to_openai_user_message(file_detail_analysis)>>
         IN  IF SkipFile(file_detail_analysis)
             THEN BuildDetailPrompts(files, i + 1, d)
             ELSE BuildDetailPrompts(files, i + 1,
                                     DictSet(d, relative_path, messages))

\* Variant: detail results holding the sentinel get no short prompt.
RECURSIVE BuildShortPrompts_filtered(_, _, _)
BuildShortPrompts_filtered(results, i, d) ==
    IF i > Len(results) THEN d
    ELSE LET messages == <<to_openai_system_message(short_analysis_prompt),
                           to_openai_system_message(results[i].v)>>
         IN  IF Contains(results[i].v, NO_CHANGES)
             THEN BuildShortPrompts_filtered(results, i + 1, d)
             ELSE BuildShortPrompts_filtered(results, i + 1,
                                      DictSet(d, results[i].k, messages))

\* Lines 296-302: one short prompt per entry of the detail results.
RECURSIVE BuildShortPrompts(_, _, _)
BuildShortPrompts(results, i, d) ==
    IF i > Len(results) THEN d
    ELSE LET messages == <<to_openai_system_message(short_analysis_prompt),
                           to_openai_system_message(results[i].v)>>
         IN  BuildShortPrompts(results, i + 1,
                               DictSet(d, results[i].k, messages))

\* Variant: the project prompt comes first.
BuildProjectMessages_promptfirst(analyses) ==
    <<to_openai_system_message(project_analysis_prompt)>>
    \o [i \in DOMAIN analyses |-> to_openai_system_message(analyses[i])]

\* Lines 321-324: the retained short analyses, then the project prompt.
BuildProjectMessages(analyses) ==
    Append([i \in DOMAIN analyses |-> to_openai_system_message(analyses[i])],
           to_openai_system_message(project_analysis_prompt))

\* ------------------------------------------------ main(): result handling
\* Variant: the file is opened with mode "w" and holds the last block only.
write_to_md_overwrite(file, data) == <<data \o "\n">>

\* write_to_md appends data + "\n" to the file; a file is the sequence of
\* the blocks appended to it.
write_to_md(file, data) == Append(file, data \o "\n")

\* Lines 288-292: the loop over the results of a detail batch.
RECURSIVE DetailWrites(_, _, _)
DetailWrites(results, i, file) ==
    IF i > Len(results) THEN file
    ELSE DetailWrites(results, i + 1,
             write_to_md(file, format_title(results[i].k, results[i].v)))

RECURSIVE DetailResults(_, _, _)
DetailResults(results, i, d) ==
    IF i > Len(results) THEN d
    ELSE DetailResults(results, i + 1,
             DictSet(d, results[i].k,
                     format_title(results[i].k, results[i].v)))

\* Lines 313-314: the short result is dropped when the sentinel occurs in
\* the formatted result.
NoChanges(result_formatted) == Contains(result_formatted, NO_CHANGES)

\* Variant: the result is written before the sentinel is looked for.
RECURSIVE ShortWrites_unfiltered(_, _, _)
ShortWrites_unfiltered(results, i, file) ==
    IF i > Len(results) THEN file
    ELSE ShortWrites_unfiltered(results, i + 1,
             write_to_md(file, format_title(results[i].k, results[i].v)))

\* Lines 309-317: the loop over the results of a short batch; what is
\* written to the short report and what is appended to
\* files_analysis_results.
RECURSIVE ShortWrites(_, _, _)
ShortWrites(results, i, file) ==
    IF i > Len(results) THEN file
    ELSE LET result_formatted == format_title(results[i].k, results[i].v)
         IN  IF NoChanges(result_formatted)
             THEN ShortWrites(results, i + 1, file)
             ELSE ShortWrites(results, i + 1,
                              write_to_md(file, result_formatted))

RECURSIVE ShortResults(_, _, _)
ShortResults(results, i, acc) ==
    IF i > Len(results) THEN acc
    ELSE LET result_formatted == format_title(results[i].k, results[i].v)
         IN  IF NoChanges(result_formatted)
             THEN ShortResults(results, i + 1, acc)
             ELSE ShortResults(results, i + 1, Append(acc, result_formatted))

\* ----------------------------------------------------------- process_batch
\* Variant: the requests are sent without a seed.
Requests_noseed(ph, n, b) ==
    [i \in DOMAIN b |-> [phase |-> ph, batch |-> n, k |-> b[i].k, v |-> b[i].v,
                      seed |-> NONE]]

\* Lines 244-247 and 236-241: one task per entry of the batch, in the
\* batch's order; every request carries seed=SEED.
Requests(ph, n, b) ==
    [i \in DOMAIN b |-> [phase |-> ph, batch |-> n, k |-> b[i].k, v |-> b[i].v,
                      seed |-> SEED]]

Range(s) == {s[i] : i \in DOMAIN s}

\* Variant: the wait ends with the first task that finishes.
GatherDone_first(b, d) == \E i \in DOMAIN b : d[b[i].k] # NORESULT

\* Variant: the tasks are started and not waited for.
GatherDone_none(b, d) == TRUE

\* Variant: only the first task of the batch is awaited.
GatherDone_head(b, d) == b = <<>> \/ d[b[1].k] # NORESULT

\* Variant: the wait ends when as many results as the limit are there.
GatherDone_full(b, d) ==
    Cardinality({i \in DOMAIN b : d[b[i].k] # NORESULT})
        = NUMBER_OF_CONCURRENT_REQUESTS

\* Line 248: gather returns when every task of the batch has finished.
GatherDone(b, d) == \A i \in DOMAIN b : d[b[i].k] # NORESULT

\* Variant: the results are taken as the tasks complete (as_completed).
GatherResults_as_completed(b, d) ==
    [i \in DOMAIN b |-> [k |-> completed[i], v |-> d[completed[i]]]]

\* Variant: the keys of the batch are paired with the results taken in the
\* opposite order.
GatherResults_misaligned(b, d) ==
    [i \in DOMAIN b |-> [k |-> b[i].k, v |-> d[b[Len(b) + 1 - i].k]]]

\* Line 248: gather returns the results in the order of its arguments.
GatherResults(b, d) == [i \in DOMAIN b |-> [k |-> b[i].k, v |-> d[b[i].k]]]

\* ----------------------------------------------------------------- states
PathIndex(p) == CHOOSE i \in DOMAIN PathOrder : PathOrder[i] = p

FileRecs ==
    {[path |-> PathOrder[i], readable |-> TRUE, content |-> c] :
        i \in DOMAIN PathOrder, c \in Contents}
    \cup {[path |-> PathOrder[i], readable |-> FALSE, content |-> ""] :
            i \in DOMAIN PathOrder}

\* The listings project_tree can return: distinct names, sorted.
Listings ==
    UNION {{f \in [1..n -> FileRecs] :
               \A i \in 1..(n - 1) :
                   PathIndex(f[i].path) < PathIndex(f[i + 1].path)} :
           n \in 0..Min(MaxFiles, Len(PathOrder))}

Init ==
    /\ NUMBER_OF_CONCURRENT_REQUESTS \in 1..MaxConcurrent
    /\ project_files \in Listings
    /\ phase = "Idle"
    /\ pc = "loop"
    /\ status = "running"
    /\ detail_analysis_prompt_dict = <<>>
    /\ detail_analysis_result_dict = <<>>
    /\ short_analysis_prompt_dict = <<>>
    /\ files_analysis_results = <<>>
    /\ project_system_messages = <<>>
    /\ batches = <<>>
    /\ batch_no = 0
    /\ pending = {}
    /\ done = <<>>
    /\ failed = {}
    /\ detail_md = <<>>
    /\ short_md = <<>>
    /\ project_md = <<>>
    /\ issued = <<>>
    /\ returned = <<>>
    /\ answered = {}
    /\ completed = <<>>
    /\ run = 1
    /\ first_run = [result |-> <<>>, completed |-> <<>>]

\* ---------------------------------------------------------------- actions
\* Lines 256-283: Idle -> DetailPhase.  The tree is written, the detail
\* prompts are built and cut into batches.
StartDetail ==
    /\ phase = "Idle"
    /\ detail_md' = write_to_md(detail_md,
           MD_TITLE \o "Project tree:\n" \o FENCE \o "\n"
                    \o TreeText(project_files, 1) \o FENCE \o "\n")
    /\ detail_analysis_prompt_dict' = BuildDetailPrompts(project_files, 1, <<>>)
    /\ batches' = dict_to_batches(detail_analysis_prompt_dict',
                                  NUMBER_OF_CONCURRENT_REQUESTS)
    /\ batch_no' = 0
    /\ phase' = "DetailPhase"
    /\ UNCHANGED <<NUMBER_OF_CONCURRENT_REQUESTS, run, first_run, answered,
                   completed, failed, project_files, pc, status, detail_analysis_result_dict,
                   short_analysis_prompt_dict, files_analysis_results,
                   project_system_messages, pending, done, short_md,
                   project_md, issued, returned>>

\* Lines 286-287 / 307-308 and 243-248: the loop takes the next batch and
\* process_batch starts one request per entry, then awaits gather.
IssueBatch ==
    /\ phase \in {"DetailPhase", "ShortPhase"}
    /\ pc = "loop"
    /\ batch_no < Len(batches)
    /\ LET reqs == Requests(phase, batch_no + 1, batches[batch_no + 1])
       IN  /\ pending' = pending \cup Range(reqs)
           /\ issued' = issued \o reqs
    /\ batch_no' = batch_no + 1
    /\ completed' = <<>>
    /\ done' = [k \in Keys(batches[batch_no + 1]) |-> NORESULT]
    /\ pc' = "await"
    /\ UNCHANGED <<NUMBER_OF_CONCURRENT_REQUESTS, run, first_run, answered,
                   failed, project_files, phase, status, detail_analysis_prompt_dict,
                   detail_analysis_result_dict, short_analysis_prompt_dict,
                   files_analysis_results, project_system_messages, batches,
                   detail_md, short_md, project_md, returned>>

\* Lines 217-223, 236-241: the service answers a request; the task returns
\* (k, text).
ResolveOk(r, text) ==
    /\ r \in pending
    /\ pending' = pending \ {r}
    /\ done' = (r.k :> text) @@ done
    /\ completed' = Append(completed, r.k)
    /\ answered' = answered \cup {[v |-> r.v, seed |-> r.seed, text |-> text]}
    /\ UNCHANGED <<NUMBER_OF_CONCURRENT_REQUESTS, run, first_run,
                   failed, project_files, phase, pc, status,
                   detail_analysis_prompt_dict, detail_analysis_result_dict,
                   short_analysis_prompt_dict, files_analysis_results,
                   project_system_messages, batches, batch_no, detail_md,
                   short_md, project_md, issued, returned>>

\* Variant: gather is called with return_exceptions=True, the exception is
\* one of the results of the batch.
ResolveFail_returned(r) ==
    /\ r \in pending
    /\ pending' = pending \ {r}
    /\ done' = (r.k :> "Exception") @@ done
    /\ failed' = failed \cup {r}
    /\ completed' = Append(completed, r.k)
    /\ UNCHANGED <<NUMBER_OF_CONCURRENT_REQUESTS, run, first_run, answered,
                   project_files, phase, pc, status,
                   detail_analysis_prompt_dict, detail_analysis_result_dict,
                   short_analysis_prompt_dict, files_analysis_results,
                   project_system_messages, batches, batch_no, detail_md,
                   short_md, project_md, issued, returned>>

\* Variant: the exception is caught in the request, which returns an
\* empty text.
ResolveFail_swallow(r) ==
    /\ r \in pending
    /\ pending' = pending \ {r}
    /\ done' = (r.k :> "") @@ done
    /\ failed' = failed \cup {r}
    /\ completed' = Append(completed, r.k)
    /\ UNCHANGED <<NUMBER_OF_CONCURRENT_REQUESTS, run, first_run, answered,
                   project_files, phase, pc, status,
                   detail_analysis_prompt_dict, detail_analysis_result_dict,
                   short_analysis_prompt_dict, files_analysis_results,
                   project_system_messages, batches, batch_no, detail_md,
                   short_md, project_md, issued, returned>>

\* Lines 217-222: the request raises.  Nothing in task, process_batch or
\* main catches it: gather hands the first exception to main, the tasks
\* still in flight keep running until the loop is torn down.
ResolveFail(r) ==
    /\ r \in pending
    /\ pending' = pending \ {r}
    /\ pc' = IF pc = "await" THEN "raised" ELSE pc
    /\ failed' = failed \cup {r}
    /\ completed' = Append(completed, r.k)
    /\ UNCHANGED <<NUMBER_OF_CONCURRENT_REQUESTS, run, first_run, answered,
                   project_files, phase, status, detail_analysis_prompt_dict,
                   detail_analysis_result_dict, short_analysis_prompt_dict,
                   files_analysis_results, project_system_messages, batches,
                   batch_no, done, detail_md, short_md, project_md, issued,
                   returned>>

\* Lines 390-392: the exception leaves main; asyncio.run cancels the tasks
\* that are left and the program ends with an error.
Abort ==
    /\ pc = "raised"
    /\ pc' = "exit"
    /\ status' = "error"
    /\ pending' = {}
    /\ UNCHANGED <<NUMBER_OF_CONCURRENT_REQUESTS, run, first_run, answered,
                   completed, failed, project_files, phase, detail_analysis_prompt_dict,
                   detail_analysis_result_dict, short_analysis_prompt_dict,
                   files_analysis_results, project_system_messages, batches,
                   batch_no, done, detail_md, short_md, project_md, issued,
                   returned>>

\* Lines 248-250 and 288-292: gather returns the detail batch, every result
\* is written to the detail report and stored.
DetailBatchDone ==
    /\ phase = "DetailPhase"
    /\ pc = "await"
    /\ GatherDone(batches[batch_no], done)
    /\ LET results == GatherResults(batches[batch_no], done)
       IN  /\ detail_md' = DetailWrites(results, 1, detail_md)
           /\ detail_analysis_result_dict' =
                  DetailResults(results, 1, detail_analysis_result_dict)
           /\ returned' = returned \o
                  [i \in DOMAIN results |->
                      [phase |-> phase, k |-> results[i].k, v |-> results[i].v]]
    /\ pc' = "loop"
    /\ UNCHANGED <<NUMBER_OF_CONCURRENT_REQUESTS, run, first_run, answered,
                   completed, failed, project_files, phase, status, detail_analysis_prompt_dict,
                   short_analysis_prompt_dict, files_analysis_results,
                   project_system_messages, batches, batch_no, pending, done,
                   short_md, project_md, issued>>

\* Lines 294-304: DetailPhase -> ShortPhase.
StartShort ==
    /\ phase = "DetailPhase"
    /\ pc = "loop"
    /\ batch_no = Len(batches)
    /\ short_analysis_prompt_dict' =
           BuildShortPrompts(detail_analysis_result_dict, 1, <<>>)
    /\ batches' = dict_to_batches(short_analysis_prompt_dict',
                                  NUMBER_OF_CONCURRENT_REQUESTS)
    /\ batch_no' = 0
    /\ phase' = "ShortPhase"
    /\ UNCHANGED <<NUMBER_OF_CONCURRENT_REQUESTS, run, first_run, answered,
                   completed, failed, project_files, pc, status, detail_analysis_prompt_dict,
                   detail_analysis_result_dict, files_analysis_results,
                   project_system_messages, pending, done, detail_md,
                   short_md, project_md, issued, returned>>

\* Lines 248-250 and 309-317: gather returns the short batch; the results
\* without the sentinel are written to the short report and kept.
ShortBatchDone ==
    /\ phase = "ShortPhase"
    /\ pc = "await"
    /\ GatherDone(batches[batch_no], done)
    /\ LET results == GatherResults(batches[batch_no], done)
       IN  /\ short_md' = ShortWrites(results, 1, short_md)
           /\ files_analysis_results' =
                  ShortResults(results, 1, files_analysis_results)
           /\ returned' = returned \o
                  [i \in DOMAIN results |->
                      [phase |-> phase, k |-> results[i].k, v |-> results[i].v]]
    /\ pc' = "loop"
    /\ UNCHANGED <<NUMBER_OF_CONCURRENT_REQUESTS, run, first_run, answered,
                   completed, failed, project_files, phase, status, detail_analysis_prompt_dict,
                   detail_analysis_result_dict, short_analysis_prompt_dict,
                   project_system_messages, batches, batch_no, pending, done,
                   detail_md, project_md, issued>>

\* Lines 319-330: ShortPhase -> ProjectPhase; the project request is sent.
StartProject ==
    /\ phase = "ShortPhase"
    /\ pc = "loop"
    /\ batch_no = Len(batches)
    /\ project_system_messages' = BuildProjectMessages(files_analysis_results)
    /\ LET req == [phase |-> "ProjectPhase", batch |-> 1, k |-> PROJECT,
                   v |-> project_system_messages', seed |-> SEED]
       IN  /\ pending' = pending \cup {req}
           /\ issued' = Append(issued, req)
    /\ done' = [k \in {PROJECT} |-> NORESULT]
    /\ completed' = <<>>
    /\ phase' = "ProjectPhase"
    /\ pc' = "await"
    /\ UNCHANGED <<NUMBER_OF_CONCURRENT_REQUESTS, run, first_run, answered,
                   failed, project_files, status, detail_analysis_prompt_dict,
                   detail_analysis_result_dict, short_analysis_prompt_dict,
                   files_analysis_results, batches, batch_no, detail_md,
                   short_md, project_md, returned>>

\* Lines 326-333: the project request returns, its text is written.
ProjectDone ==
    /\ phase = "ProjectPhase"
    /\ pc = "await"
    /\ done[PROJECT] # NORESULT
    /\ project_md' = write_to_md(project_md, done[PROJECT])
    /\ phase' = "Done"
    /\ pc' = "exit"
    /\ status' = "ok"
    /\ UNCHANGED <<NUMBER_OF_CONCURRENT_REQUESTS, run, first_run, answered,
                   completed, failed, project_files, detail_analysis_prompt_dict,
                   detail_analysis_result_dict, short_analysis_prompt_dict,
                   files_analysis_results, project_system_messages, batches,
                   batch_no, pending, done, detail_md, short_md, issued,
                   returned>>

Next ==
    \/ StartDetail
    \/ IssueBatch
    \/ \E r \in pending, text \in Responses : ResolveOk(r, text)
    \/ \E r \in pending : ResolveFail(r)
    \/ Abort
    \/ DetailBatchDone
    \/ StartShort
    \/ ShortBatchDone
    \/ StartProject
    \/ ProjectDone

Spec == Init /\ [][Next]_vars

\* The event loop runs main and the tasks whenever one of them can take a
\* step, and the service resolves every request it was sent.
SpecLive == Init /\ [][Next]_vars /\ WF_vars(Next)

\* ------------------------------------------- two runs, deterministic client
\* A client whose answer is a function of the prompt and the seed: a prompt
\* answered before under the same seed gets the same text again.
Deterministic(r, text) ==
    r.seed # NONE =>
        \A a \in answered : (a.v = r.v /\ a.seed = r.seed) => a.text = text

ResolveOkDet(r, text) == Deterministic(r, text) /\ ResolveOk(r, text)

\* Lines 386-392: the program is started again on the same directory once
\* the first run has finished DetailPhase; clear_dir empties the reports and
\* main starts from scratch.  The client and the files are the same.
Restart ==
    /\ run = 1
    /\ phase = "DetailPhase"
    /\ pc = "loop"
    /\ batch_no = Len(batches)
    /\ run' = 2
    /\ first_run' = [result |-> detail_analysis_result_dict,
                     completed |-> completed]
    /\ phase' = "Idle"
    /\ detail_analysis_prompt_dict' = <<>>
    /\ detail_analysis_result_dict' = <<>>
    /\ batches' = <<>>
    /\ batch_no' = 0
    /\ done' = <<>>
    /\ completed' = <<>>
    /\ detail_md' = <<>>
    /\ issued' = <<>>
    /\ returned' = <<>>
    /\ UNCHANGED <<NUMBER_OF_CONCURRENT_REQUESTS, project_files, pc, status,
                   short_analysis_prompt_dict, files_analysis_results,
                   project_system_messages, pending, failed, short_md,
                   project_md, answered>>

NextTwice ==
    \/ StartDetail
    \/ IssueBatch
    \/ \E r \in pending, text \in Responses : ResolveOkDet(r, text)
    \/ \E r \in pending : ResolveFail(r)
    \/ Abort
    \/ DetailBatchDone
    \/ Restart

SpecTwice == Init /\ [][NextTwice]_vars

\* ================================================================ claims
StagePhases == {"DetailPhase", "ShortPhase"}

ReturnedOf(ph) == SelectSeq(returned, LAMBDA e : e.phase = ph)

IssuedOf(ph) == SelectSeq(issued, LAMBDA e : e.phase = ph)

\* The input mapping of a stage.
StageInput(ph) ==
    IF ph = "DetailPhase" THEN detail_analysis_prompt_dict
    ELSE short_analysis_prompt_dict

\* The stage has processed all its batches.
StageComplete == phase \in StagePhases /\ pc = "loop" /\ batch_no = Len(batches)

\* C1: when the run has ended and exactly one request of a detail or short
\* batch of at least two raised while all its siblings resolved with a
\* text, every sibling has its result in the output of the stage.
C1_FailureIsolation ==
    pc = "exit" =>
        \A r \in failed :
            LET batch == {q \in Range(issued) :
                             q.phase = r.phase /\ q.batch = r.batch}
            IN  (/\ r.phase \in StagePhases
                 /\ Cardinality(batch) >= 2
                 /\ batch \cap failed = {r}
                 /\ r.phase = phase /\ r.batch = batch_no
                 /\ \A q \in batch \ {r} : done[q.k] # NORESULT)
                => \A q \in batch \ {r} :
                       \E e \in Range(returned) :
                           e.phase = q.phase /\ e.k = q.k

\* C2: a request of DetailPhase or ShortPhase that raised does not end the
\* run with an error.
C2_ServiceErrorNonFatal ==
    (\E r \in failed : r.phase \in StagePhases) => status # "error"

\* C3: when a stage has processed all its batches (every request resolved
\* with a text), process_batch has returned exactly one result per
\* identifier of the stage's input, and the detail results hold exactly
\* the identifiers of the detail input.
C3_OneResultPerIdentifier ==
    StageComplete =>
        LET out == ReturnedOf(phase)
        IN  /\ {out[i].k : i \in DOMAIN out} = Keys(StageInput(phase))
            /\ Len(out) = Cardinality(Keys(StageInput(phase)))
            /\ phase = "DetailPhase" =>
                   /\ Keys(detail_analysis_result_dict)
                          = Keys(detail_analysis_prompt_dict)
                   /\ Len(detail_analysis_result_dict)
                          = Len(detail_analysis_prompt_dict)

C3_Witness ==
    /\ StageComplete
    /\ phase = "ShortPhase"
    /\ Len(batches) >= 2
    /\ Len(batches[1]) >= 2

\* C4: the number of requests issued and not resolved never exceeds the
\* configured limit.
C4_InFlightBounded == Cardinality(pending) <= NUMBER_OF_CONCURRENT_REQUESTS

C4_Witness ==
    /\ NUMBER_OF_CONCURRENT_REQUESTS >= 2
    /\ Cardinality(pending) = NUMBER_OF_CONCURRENT_REQUESTS
    /\ phase = "ShortPhase"

\* C5: requests are issued only while no request is unresolved, so the
\* requests of batch K+1 start after all of batch K have resolved.
C5_BatchBarrier == [][issued' # issued => pending = {}]_vars

C5_Witness == phase \in StagePhases /\ batch_no >= 2 /\ pending # {}

\* C6: the phase only moves one step along Idle, DetailPhase, ShortPhase,
\* ProjectPhase, Done; the requests in flight are those of the current
\* phase; and once a request of a later phase was issued, the stage before
\* it has returned a result for every entry of its input.
PhaseStep ==
    {<<"Idle", "DetailPhase">>, <<"DetailPhase", "ShortPhase">>,
     <<"ShortPhase", "ProjectPhase">>, <<"ProjectPhase", "Done">>}

C6_PhaseOrdering ==
    /\ [][phase' # phase => <<phase, phase'>> \in PhaseStep]_vars
    /\ [](\A r \in pending : r.phase = phase)
    /\ [](IssuedOf("ShortPhase") # <<>> =>
             Len(ReturnedOf("DetailPhase")) = Len(detail_analysis_prompt_dict))
    /\ [](IssuedOf("ProjectPhase") # <<>> =>
             /\ Len(ReturnedOf("DetailPhase")) = Len(detail_analysis_prompt_dict)
             /\ Len(ReturnedOf("ShortPhase")) = Len(short_analysis_prompt_dict))

C6_Witness ==
    /\ phase = "Done"
    /\ Len(IssuedOf("DetailPhase")) >= 2
    /\ Len(IssuedOf("ShortPhase")) >= 2

\* C7: once ShortPhase is over, a short result is missing from the project
\* input exactly when the text the service returned for it contains the
\* sentinel.
C7_FilterLaw ==
    phase \in {"ProjectPhase", "Done"} =>
        \A e \in Range(ReturnedOf("ShortPhase")) :
            (format_title(e.k, e.v) \notin Range(files_analysis_results))
                <=> Contains(e.v, NO_CHANGES)

\* C8: the detail input mapping holds exactly the files that can be read,
\* once each, in the order of the listing.
C8_OneWorkItemPerReadableFile ==
    phase # "Idle" =>
        KeySeq(detail_analysis_prompt_dict)
            = LET readable == SelectSeq(project_files, LAMBDA f : f.readable)
              IN  [i \in DOMAIN readable |-> readable[i].path]

\* C9: the identifiers of the short input mapping are exactly the
\* identifiers of the detail results.
C9_ShortInputIsDetailOutput ==
    phase \in {"ShortPhase", "ProjectPhase", "Done"} =>
        LET out == ReturnedOf("DetailPhase")
        IN  /\ KeySeq(short_analysis_prompt_dict)
                   = KeySeq(detail_analysis_result_dict)
            /\ Keys(short_analysis_prompt_dict)
                   = {out[i].k : i \in DOMAIN out}
            /\ Len(short_analysis_prompt_dict) = Len(out)

C9_Witness ==
    /\ phase = "ShortPhase"
    /\ Len(short_analysis_prompt_dict) >= 2
    /\ \E i \in DOMAIN detail_analysis_result_dict :
           Contains(detail_analysis_result_dict[i].v, NO_CHANGES)

\* The short results the filter of lines 313-314 keeps, formatted, in the
\* order process_batch returned them.
RetainedTexts ==
    LET s == ReturnedOf("ShortPhase")
        f == [i \in DOMAIN s |-> format_title(s[i].k, s[i].v)]
    IN  SelectSeq(f, LAMBDA t : ~Contains(t, NO_CHANGES))

\* C10: from ProjectPhase on exactly one project request has been issued;
\* its messages are the retained short analyses followed by the project
\* prompt; with no readable file it is the only request of the run and
\* carries the project prompt alone.
C10_OneProjectRequest ==
    phase \in {"ProjectPhase", "Done"} =>
        LET p == IssuedOf("ProjectPhase")
        IN  /\ Len(p) = 1
            /\ [i \in DOMAIN p[1].v |-> p[1].v[i].content]
                   = RetainedTexts \o <<project_analysis_prompt>>
            /\ \A i \in DOMAIN p[1].v : p[1].v[i].role = "system"
            /\ detail_analysis_prompt_dict = <<>> =>
                   /\ Len(issued) = 1
                   /\ p[1].v = <<to_openai_system_message(
                                     project_analysis_prompt)>>

C10_Witness == phase = "Done" /\ Len(files_analysis_results) >= 2

ProjectFailed == \E r \in failed : r.phase = "ProjectPhase"

\* C11: once the project request has raised, the run stays in ProjectPhase
\* and never ends with success, the project report stays empty, the run
\* ends with an error, and the detail and short reports do not change any
\* more.
C11_ProjectFailureIsFatal ==
    /\ [](ProjectFailed =>
             /\ phase = "ProjectPhase"
             /\ status # "ok"
             /\ pc \in {"raised", "exit"}
             /\ project_md = <<>>)
    /\ [][ProjectFailed => /\ detail_md' = detail_md
                           /\ short_md' = short_md
                           /\ project_md' = project_md
                           /\ pc' = "exit" => status' = "error"]_vars

C11_Witness ==
    /\ ProjectFailed
    /\ pc = "exit"
    /\ status = "error"
    /\ Len(detail_md) >= 3
    /\ Len(short_md) >= 1

\* The prompt submitted under identifier k in a stage.
PromptOf(ph, k) ==
    LET d == StageInput(ph)
    IN  d[CHOOSE i \in DOMAIN d : d[i].k = k].v

\* C12: every result process_batch returned under an identifier is the
\* text the service gave in answer to the prompt submitted under that
\* identifier, and the detail result stored under an identifier is that
\* answer under the identifier's title.
C12_ResultBelongsToIdentifier ==
    /\ \A e \in Range(returned) :
           [v |-> PromptOf(e.phase, e.k), seed |-> SEED, text |-> e.v]
               \in answered
    /\ \A i \in DOMAIN detail_analysis_result_dict :
           LET e == detail_analysis_result_dict[i]
           IN  \E a \in answered :
                   /\ a.v = PromptOf("DetailPhase", e.k)
                   /\ e.v = format_title(e.k, a.text)

\* A batch of two whose requests got different answers, the second request
\* resolving first.
C12_Witness ==
    /\ phase = "DetailPhase"
    /\ pc = "loop"
    /\ batch_no >= 1
    /\ Len(batches[batch_no]) >= 2
    /\ completed[1] = batches[batch_no][2].k
    /\ done[batches[batch_no][1].k] # done[batches[batch_no][2].k]

RECURSIVE Concat(_, _)
Concat(ss, i) == IF i > Len(ss) THEN <<>> ELSE ss[i] \o Concat(ss, i + 1)

\* C13: the batches of a stage are ceil(n / c) in number for an input of n
\* entries and limit c, each holds between 1 and c entries, all but the
\* last hold c, and put one after the other they are the input mapping in
\* its iteration order.
C13_Partition ==
    phase \in StagePhases =>
        LET M == StageInput(phase)
            n == Len(M)
            c == NUMBER_OF_CONCURRENT_REQUESTS
        IN  /\ Len(batches) = (n + c - 1) \div c
            /\ \A i \in DOMAIN batches :
                   /\ Len(batches[i]) >= 1
                   /\ Len(batches[i]) <= c
                   /\ i < Len(batches) => Len(batches[i]) = c
            /\ Concat(batches, 1) = M

\* Three entries cut with limit 2: a full batch and a smaller last one.
C13_Witness ==
    /\ phase \in StagePhases
    /\ Len(batches) >= 2
    /\ Len(batches[Len(batches)]) < NUMBER_OF_CONCURRENT_REQUESTS
    /\ NUMBER_OF_CONCURRENT_REQUESTS >= 2

\* C14: with a client whose answer depends on the prompt and the seed only,
\* a second run of DetailPhase on the same files ends with the same detail
\* results as the first run, whatever the orders of completion were.
C14_DetailPhaseIdempotent ==
    (run = 2 /\ StageComplete /\ phase = "DetailPhase") =>
        detail_analysis_result_dict = first_run.result

\* The second run has finished; the last batch resolved in another order
\* than in the first run.
C14_Witness ==
    /\ run = 2
    /\ StageComplete
    /\ phase = "DetailPhase"
    /\ Len(first_run.result) >= 2
    /\ Len(completed) >= 2
    /\ completed # first_run.completed

\* The blocks a stage has appended to its report (the detail report
\* starts with the project tree).
Emitted(ph) == IF ph = "DetailPhase" THEN Tail(detail_md) ELSE short_md

\* The block written for a result.
Entry(e) == format_title(e.k, e.v) \o "\n"

\* Number of batches of the stage whose gather has returned.
CompletedBatches == IF pc = "loop" THEN batch_no ELSE batch_no - 1

\* The batch a block of the report comes from.
BatchOfEntry(ph, x) ==
    LET e == CHOOSE e \in Range(ReturnedOf(ph)) : Entry(e) = x
        q == CHOOSE q \in Range(issued) : q.phase = ph /\ q.k = e.k
    IN  q.batch

\* The report holds results only, batch after batch.
EmittedInBatchOrder(ph) ==
    /\ \A i \in DOMAIN Emitted(ph) :
           \E e \in Range(ReturnedOf(ph)) : Entry(e) = Emitted(ph)[i]
    /\ \A i, j \in DOMAIN Emitted(ph) :
           i < j => BatchOfEntry(ph, Emitted(ph)[i])
                        <= BatchOfEntry(ph, Emitted(ph)[j])

\* The results returned so far are those of the batches that completed.
ReturnedAreCompleted(ph) ==
    {e.k : e \in Range(ReturnedOf(ph))}
        = UNION {Keys(batches[i]) : i \in 1..CompletedBatches}

\* No file name of the listing holds the sentinel.
PlainNames ==
    \A i \in DOMAIN project_files :
        ~Contains(project_files[i].path, NO_CHANGES)

\* C15 as stated: in a stage, while batch K+1 is not yet issued or is in
\* flight, every result of the batches 1..K is in the report, and the
\* report holds them batch after batch.  Stated for listings whose file
\* names do not hold the sentinel, so that a result is dropped for its text
\* alone.
C15_StreamingEmission ==
    (PlainNames /\ phase \in StagePhases) =>
        /\ ReturnedAreCompleted(phase)
        /\ \A e \in Range(ReturnedOf(phase)) :
               Entry(e) \in Range(Emitted(phase))
        /\ EmittedInBatchOrder(phase)

\* C15 amended: the same for every detail result and for every short
\* result whose formatted entry does not hold the sentinel; a short result
\* the filter drops is never in the report.
C15_StreamingEmissionOfRetained ==
    phase \in StagePhases =>
        /\ ReturnedAreCompleted(phase)
        /\ \A e \in Range(ReturnedOf(phase)) :
               (Entry(e) \in Range(Emitted(phase)))
                   <=> (phase = "DetailPhase"
                            \/ ~Contains(format_title(e.k, e.v), NO_CHANGES))
        /\ EmittedInBatchOrder(phase)

\* The second short batch is in flight; of the first, one result is in the
\* report and one was dropped by the filter.
C15_Witness ==
    /\ phase = "ShortPhase"
    /\ pc = "await"
    /\ batch_no = 2
    /\ Len(short_md) >= 1
    /\ \E e \in Range(ReturnedOf("ShortPhase")) :
           Entry(e) \notin Range(short_md)

\* C16: a run in which no request ever raises reaches Done; and in Done the
\* project report holds the text the project request returned.
C16_ReachesDone ==
    /\ [](failed = {}) => <>(phase = "Done")
    /\ [](phase = "Done" =>
             /\ done[PROJECT] # NORESULT
             /\ project_md = <<done[PROJECT] \o "\n">>
             /\ status = "ok")

C16_Witness ==
    /\ phase = "Done"
    /\ Len(IssuedOf("ShortPhase")) >= 3
    /\ project_md # <<>>

\* C17: a step taken while a request is in flight leaves the detail
\* results, the retained short analyses and the three reports unchanged.
C17_NoWriteWhileInFlight ==
    [][pending # {} =>
          UNCHANGED <<detail_analysis_result_dict, files_analysis_results,
                      detail_md, short_md, project_md>>]_vars

\* A short batch is half resolved; the detail results are stored and
\* written.
C17_Witness ==
    /\ phase = "ShortPhase"
    /\ pc = "await"
    /\ pending # {}
    /\ \E k \in DOMAIN done : done[k] # NORESULT
    /\ Len(detail_analysis_result_dict) >= 2
    /\ Len(detail_md) >= 3

\* The identifiers of the batches of a stage issued before batch n.
KeysBefore(ph, n) ==
    {q.k : q \in {q \in Range(issued) : q.phase = ph /\ q.batch < n}}

IsPrefix(s, t) == Len(s) <= Len(t) /\ s = SubSeq(t, 1, Len(s))

\* C19: the results process_batch returned are in the iteration order of
\* the stage's input mapping, and so are the detail results and the blocks
\* of the detail report (after the project tree), whatever order the
\* requests resolved in.
C19_SubmissionOrder ==
    /\ IsPrefix(KeySeq(ReturnedOf("DetailPhase")),
                KeySeq(detail_analysis_prompt_dict))
    /\ IsPrefix(KeySeq(ReturnedOf("ShortPhase")),
                KeySeq(short_analysis_prompt_dict))
    /\ KeySeq(detail_analysis_result_dict) = KeySeq(ReturnedOf("DetailPhase"))
    /\ phase # "Idle" =>
           Tail(detail_md) =
               [i \in DOMAIN ReturnedOf("DetailPhase") |->
                   Entry(ReturnedOf("DetailPhase")[i])]

\* A detail batch whose requests resolved in another order than they were
\* submitted has been written.
C19_Witness ==
    /\ phase = "DetailPhase"
    /\ pc = "loop"
    /\ batch_no >= 1
    /\ Len(completed) >= 2
    /\ completed # KeySeq(batches[batch_no])
    /\ Len(detail_md) >= 3

\* C20: the blocks of the short report are the retained short analyses, in
\* the same order; a short result the filter dropped is in neither; and
\* the analyses sent as context of the project request are those of the
\* short report.
C20_ShortReportIsProjectContext ==
    /\ short_md = [i \in DOMAIN files_analysis_results |->
                      files_analysis_results[i] \o "\n"]
    /\ \A e \in Range(ReturnedOf("ShortPhase")) :
           NoChanges(format_title(e.k, e.v)) =>
               /\ Entry(e) \notin Range(short_md)
               /\ format_title(e.k, e.v) \notin Range(files_analysis_results)
    /\ phase \in {"ProjectPhase", "Done"} =>
           LET v == IssuedOf("ProjectPhase")[1].v
           IN  [i \in 1..(Len(v) - 1) |-> v[i].content \o "\n"] = short_md

\* The project request is out; one short result is in the report and in
\* the context, another was dropped.
C20_Witness ==
    /\ phase = "ProjectPhase"
    /\ Len(short_md) >= 1
    /\ Len(ReturnedOf("ShortPhase")) > Len(short_md)

====
